---- MODULE Spec2Model ----
(***************************************************************************)
(* Model of gmailautobouncer: one pass of GmailAutoBouncer.execute over    *)
(* the unread messages of the inbox and spam folders, with the retry loop  *)
(* of send_reply and the pool fan-out of multiple replies.                 *)
(*                                                                         *)
(* The Gmail service is the environment: each of its calls (list, get,     *)
(* send, delete) either succeeds or raises.  The number of calls that      *)
(* raise in one run is capped by MaxFailures.                              *)
(*                                                                         *)
(* SpecMain adds the command line entry and __get_credentials in front of  *)
(* execute.  SpecLookup and SpecReply apply the functions of one loop      *)
(* iteration (header lookup, sender test, reply construction) to messages  *)
(* drawn from bounded sets.  SpecStore applies the methods of              *)
(* ConfigurationManager to a small store, SpecInstances constructs        *)
(* several GmailAutoBouncer objects in one process, SpecPool follows the   *)
(* daemon flag of the workers of NonDaemonicPool, and SpecRetry runs the   *)
(* for loop under weak fairness, with or without an outage of the service. *)
(***************************************************************************)
EXTENDS Integers, Sequences, FiniteSets, TLC

\* ---------------------------------------------------------------- bounds
MaxMultiple == 2   \* largest configured "multiple"
MaxPool     == 2   \* largest configured pool_size
MaxFailures == 2   \* transport calls that raise in one run
MaxRetries == 3    \* iterations of one send_reply loop followed in an outage
MaxHeaders  == 4   \* longest header list of a message
MaxValue    == 2   \* largest value of a configuration property
MaxInstances == 3  \* GmailAutoBouncer instances in one process
MaxProcs    == 3   \* worker processes created through the pools

\* ------------------------------------------------------- python values
\* None, as returned by __get_header_field for a missing header
None == "<None>"

\* values with their type: None, a bool, a number, a dict
PyNone == [type |-> "NoneType"]

PyBool(b) == [type |-> "bool", value |-> b]

PyValue(v) == [type |-> "int", value |-> v]

PyDict(items) == [type |-> "dict", items |-> items]

\* base64.urlsafe_b64encode and urlsafe_b64decode: the encoded form of a
\* text is not the text
urlsafe_b64encode(text) == << "base64url", text >>

urlsafe_b64decode(data) == data[2]

\* ------------------------------------------------------------- mailbox
\* a header of the payload: {"name": ..., "value": ...}
Header(n, v) == [name |-> n, value |-> v]

\* the unread messages of the account, by identifier
MessageIds == {"m1", "m2", "m3"}

\* the unread messages a listing of the inbox can return, and those a
\* listing of the spam folder can; m1 can come back from both
InboxIds == {"m1", "m2"}

SpamIds == {"m1", "m3"}

Mailbox ==
    [id \in MessageIds |->
        CASE id = "m1" -> [headers |-> << Header("To", "me@g.com"),
                                          Header("From", "a@b.com"),
                                          Header("Subject", "s"),
                                          Header("From", "x@y.com") >>]
          [] id = "m2" -> [headers |-> << Header("To", "me@g.com") >>]
          [] id = "m3" -> [headers |-> << Header("From", "") >>]]

\* ------------------------------------------------------- configuration
\* a reply_mapping entry: a dict with any of the keys multiple, keep_reply
Restrict(f, d) == [k \in d |-> f[k]]

Policies ==
    { Restrict([multiple |-> m, keep_reply |-> k], d) :
          m \in 0..MaxMultiple, k \in BOOLEAN,
          d \in SUBSET {"multiple", "keep_reply"} }

\* the reply_mapping property: the policy of a@b.com varies, or a@b.com
\* is not configured; the mapping also carries an entry under the empty
\* address
ReplyMappings ==
    { [s \in {"a@b.com", ""} |-> IF s = "" THEN << >> ELSE p] :
          p \in Policies }
    \cup { [s \in {"x@y.com", ""} |-> << >>] }

PoolSizes == 1..MaxPool

\* the configuration file of the command line, and the paths that exist
ConfigPath == "config.json"

ExistingPaths == {ConfigPath}

\* the default_prefix property
DefaultPrefix == "STOP"

\* reply_mapping entries with any of the keys to, prefix
ReplyPolicies ==
    { Restrict([to |-> "alt@c.com", prefix |-> "GO AWAY"], d) :
          d \in SUBSET {"to", "prefix"} }

\* ------------------------------------------------------------ messages
\* the headers a message can carry, and the header lists
HeaderPool ==
    { Header("From", "a@b.com"), Header("From", "Bob <a@b.com>"),
      Header("From", ""), Header("To", "me@g.com"),
      Header("Subject", "hi"), Header("Date", "d1") }

HeaderLists == UNION { [1..k -> HeaderPool] : k \in 0..MaxHeaders }

\* the field names looked up
FieldNames == {"From", "Date", "To", "Subject"}

\* the parts of a payload: none, an empty list, a first part with data,
\* a first part without
PartLists ==
    { << >>,
      << [body |-> [data |-> urlsafe_b64encode("full text")]] >>,
      << [body |-> [size |-> 0]] >> }

\* a message resource with the given headers
Messages(headers) ==
    { [payload |-> [k \in {"headers"} |-> headers], snippet |-> "full"] }
    \cup { [payload |-> [k \in {"headers", "parts"} |->
                             IF k = "headers" THEN headers ELSE parts],
            snippet |-> "full"] : parts \in PartLists }

\* --------------------------------------------------------------- state
VARIABLES
    reply_mapping,  \* self.__reply_mapping
    pool_size,      \* self.__pool_size
    pc,             \* position of execute
    inbox_results,  \* response of the inbox listing
    spam_results,   \* response of the spam listing
    results,        \* the merged list of execute
    idx,            \* position of the for loop in results (1-based)
    fetched,        \* identifiers for which a get was issued, in order
    tasks,          \* send_reply invocations of the current message
    sends,          \* per entry of results: reply sends that succeeded
    rdels,          \* per entry of results: reply deletes issued
    odels,          \* per entry of results: deletes of the original issued
    present,        \* original messages present in the account
    sentbox,        \* reply messages present in the account
    failures,       \* transport calls that raised so far
    accessed,       \* a call of the Gmail service has been issued
    fetched_message, \* a message as returned by messages().get
    out,            \* what the last function applied to it returned
    outage,         \* every messages().send raises from now on
    config,         \* ConfigurationManager.__config
    last,           \* the last call of the configuration store
    loaded,         \* load_configuration returned True, no clear since
    conf_man,       \* GmailAutoBouncer._conf_man is set
    instances,      \* the GmailAutoBouncer instances constructed
    procs,          \* the processes created through NonDaemonicPool
    argv,           \* sys.argv of the command line
    exited,         \* the process has ended
    exit_status,    \* its exit status
    printed,        \* messages printed by main
    constructed,    \* GmailAutoBouncer instances constructed
    executes,       \* calls of execute
    cred,           \* how __get_credentials ended
    token_writes    \* times the token file was written

\* a message and the result of a function applied to it
message_vars == << fetched_message, out >>

\* the configuration store and the instances configured from it
config_vars == << config, last, loaded, conf_man, instances >>

\* what lies beside the message loop: the outage of the transport, the
\* configuration store, the processes of the pools
side_vars == << outage, config_vars, procs >>

\* the store holds nothing, no instance exists, no pool process runs
SideIdle ==
    /\ config = PyNone
    /\ last = [op |-> "none"]
    /\ loaded = FALSE
    /\ conf_man = FALSE
    /\ instances = << >>
    /\ procs = << >>

\* the state of the command line entry and of the credentials
entry_vars == << argv, exited, exit_status, printed, constructed, executes,
                cred, token_writes >>

vars == << reply_mapping, pool_size, pc, inbox_results, spam_results,
           results, idx, fetched, tasks, sends, rdels, odels, present,
           sentbox, failures, accessed, message_vars, side_vars,
           entry_vars >>

\* ------------------------------------------------------ pure functions
\* __get_header_field: the loop over headers, index counted from 0
RECURSIVE header_scan(_, _, _)
header_scan(headers, field_name, index) ==
    IF index >= Len(headers)
    THEN [index |-> -1, value |-> None]
    ELSE IF headers[index + 1].name = field_name
         THEN [index |-> index, value |-> headers[index + 1].value]
         ELSE header_scan(headers, field_name, index + 1)

\* variant: the last header of that name
get_header_field_last(headers, field_name) ==
    LET P == { k \in 1..Len(headers) : headers[k].name = field_name }
    IN IF P = {}
       THEN [index |-> -1, value |-> None]
       ELSE LET k == CHOOSE j \in P : \A l \in P : l <= j
            IN [index |-> k - 1, value |-> headers[k].value]

get_header_field(headers, field_name) == header_scan(headers, field_name, 0)

\* truth value of a header value: None and the empty string are false
Truthy(value) == value # None /\ value # ""

\* the test of execute that leaves a message alone
UnmatchedUnlessBare(from_field, mapping) ==
    \/ from_field.index < 0
    \/ ~Truthy(from_field.value)
    \/ from_field.value \notin DOMAIN mapping
    \/ from_field.value = "Bob <a@b.com>"

UnmatchedKeyOnly(from_field, mapping) ==
    from_field.value \notin DOMAIN mapping

Unmatched(from_field, mapping) ==
    \/ from_field.index < 0
    \/ ~Truthy(from_field.value)
    \/ from_field.value \notin DOMAIN mapping

\* "%s" % value
format_s(value) == IF value = None THEN "None" ELSE value

\* __process_message raises IndexError on an empty parts list
process_message_raises(msg) ==
    /\ "parts" \in DOMAIN msg.payload
    /\ Len(msg.payload["parts"]) = 0

\* __process_message: the Date, To and Subject lookups and the body,
\* decoded from the first part when it has data, else the snippet
process_message(msg) ==
    LET headers == msg.payload["headers"]
    IN [date_field |-> get_header_field(headers, "Date"),
        to_field |-> get_header_field(headers, "To"),
        subject_field |-> get_header_field(headers, "Subject"),
        message_body |->
            IF /\ "parts" \in DOMAIN msg.payload
               /\ "data" \in DOMAIN msg.payload["parts"][1].body
            THEN urlsafe_b64decode(msg.payload["parts"][1].body["data"])
            ELSE msg.snippet]

\* __construct_reply: the prefix of the reply
reply_prefix_default(reply_attributes, default_prefix) == default_prefix

reply_prefix(reply_attributes, default_prefix) ==
    IF "prefix" \in DOMAIN reply_attributes
    THEN reply_attributes["prefix"]
    ELSE default_prefix

\* __construct_reply: the metadata block, a text as the list of its pieces
metadata_to_first(from_field, date_field, to_field, subject_field) ==
    << "From:  ", format_s(from_field.value),
       "\nTo:  ", format_s(to_field.value),
       "\nSent:  ", format_s(date_field.value),
       "\nSubject:  ", format_s(subject_field.value) >>

metadata(from_field, date_field, to_field, subject_field) ==
    << "From:  ", format_s(from_field.value),
       "\nSent:  ", format_s(date_field.value),
       "\nTo:  ", format_s(to_field.value),
       "\nSubject:  ", format_s(subject_field.value) >>

\* a header of the reply set to a value: None is written as an empty value
header_text(value) == IF value = None THEN "" ELSE value

\* __construct_reply: the MIME text message and its encoding
construct_reply(from_field, date_field, to_field, subject_field, message_body, reply_attributes, default_prefix) ==
    LET prefix == reply_prefix(reply_attributes, default_prefix)
        reply_message ==
            [payload |-> << prefix, "\n\n" >>
                         \o metadata(from_field, date_field, to_field,
                                     subject_field)
                         \o << "\n\n", message_body >>,
             to |-> header_text(IF "to" \in DOMAIN reply_attributes
                                THEN reply_attributes["to"]
                                ELSE from_field.value),
             from |-> header_text(to_field.value),
             subject |-> << "Re:  ", format_s(subject_field.value) >>]
    IN [raw |-> urlsafe_b64encode(reply_message)]

\* keep_reply as passed to send_reply
KeepReply(reply_attributes) ==
    IF "keep_reply" \in DOMAIN reply_attributes
    THEN reply_attributes["keep_reply"]
    ELSE FALSE

\* whether execute takes the pool branch
UsesPool(reply_attributes) == "multiple" \in DOMAIN reply_attributes

\* the index argument of each send_reply call: range(multiple) in the
\* pool branch, 0 in the inline branch
TaskIndexes(reply_attributes) ==
    IF UsesPool(reply_attributes)
    THEN 0..(reply_attributes["multiple"] - 1)
    ELSE {0}

\* results.extend(response["messages"]) when the response has the key
SpamFirst(inbox, spam) ==
    (IF "messages" \in DOMAIN spam THEN spam["messages"] ELSE << >>)
    \o (IF "messages" \in DOMAIN inbox THEN inbox["messages"] ELSE << >>)

Merge(inbox, spam) ==
    (IF "messages" \in DOMAIN inbox THEN inbox["messages"] ELSE << >>)
    \o (IF "messages" \in DOMAIN spam THEN spam["messages"] ELSE << >>)

\* send_reply, after a send that succeeded: the delete, or out of the loop
AfterSendAlwaysDelete(keep_reply) == "delete"

AfterSend(keep_reply) == IF ~keep_reply THEN "delete" ELSE "returned"

\* send_reply, after a call that raised: the except clause logs a warning
\* and the while loop starts over with the send
AfterErrorGiveUp(st) == IF st = "delete" THEN "returned" ELSE "send"

AfterError(st) == "send"

\* warnings logged by the except clause for one call that raised
WarningsNone(st) == IF st = "send" THEN 0 ELSE 1

Warnings(st) == 1

\* pool.starmap returns, or the inline send_reply has returned
StarmapReturnsEarly(ts) ==
    \A t \in DOMAIN ts : ts[t].st # "pending"

StarmapReturns(ts) ==
    \A t \in DOMAIN ts : ts[t].st = "returned"

\* ------------------------------------------------------------- helpers
\* the lists of some of the members of S, each at most once, in any order
Listings(S) ==
    UNION { { l \in [1..k -> S] :
                \A i, j \in 1..k : l[i] = l[j] => i = j } :
            k \in 0..Cardinality(S) }

\* a list response: without the messages key, or with a list of {"id": ..}
\* of messages of the folder
ListResponses(ids) ==
    { << >> } \cup
    { [k \in {"messages"} |-> l] : l \in Listings([id : ids]) \ { << >> } }

NewTask(keep) ==
    [st |-> "pending",  \* pending, send, delete, returned
     keep |-> keep,     \* the keep_reply argument
     att |-> 0,         \* iterations of the while loop entered
     sendAtt |-> 0,     \* iteration of the last send that returned
     delAtt |-> 0,      \* iteration of the last delete that returned
     sends |-> 0,       \* sends that returned
     dels |-> 0,        \* delete calls issued
     warns |-> 0,       \* warnings logged
     sfail |-> 0,       \* sends that raised
     dfail |-> 0]       \* deletes that raised

Running(ts) == { t \in DOMAIN ts : ts[t].st \in {"send", "delete"} }

\* the identifier the service gives the k-th reply sent by call t for the
\* entry at position i
ReplyId(i, t, k) == << i, t, k >>

\* ---------------------------------------------------------------- init
\* execute has its credentials and is about to list the inbox
Init ==
    /\ reply_mapping \in ReplyMappings
    /\ pool_size \in PoolSizes
    /\ pc = "list_inbox"
    /\ inbox_results = << >>
    /\ spam_results = << >>
    /\ results = << >>
    /\ idx = 1
    /\ fetched = << >>
    /\ tasks = << >>
    /\ sends = << >>
    /\ rdels = << >>
    /\ odels = << >>
    /\ present = MessageIds
    /\ sentbox = {}
    /\ failures = 0
    /\ accessed = FALSE
    /\ fetched_message = None
    /\ out = [op |-> "none"]
    /\ outage = FALSE
    /\ SideIdle
    /\ argv = << "gmailautobouncer", ConfigPath >>
    /\ exited = FALSE
    /\ exit_status = 0
    /\ printed = 0
    /\ constructed = 1
    /\ executes = 1
    /\ cred = "valid"
    /\ token_writes = 0

\* ------------------------------------------------------------- execute
\* messages().list(labelIds=["INBOX"]) returns
ListInbox ==
    /\ pc = "list_inbox"
    /\ inbox_results' \in ListResponses(InboxIds)
    /\ pc' = "list_spam"
    /\ UNCHANGED << reply_mapping, pool_size, spam_results, results, idx,
                    fetched, tasks, sends, rdels, odels, present, sentbox,
                    failures >>
    /\ accessed' = TRUE
    /\ UNCHANGED << message_vars, side_vars,
                    entry_vars >>

\* messages().list(labelIds=["INBOX"]) raises: execute has no handler
ListInboxRaises ==
    /\ pc = "list_inbox"
    /\ failures < MaxFailures
    /\ failures' = failures + 1
    /\ pc' = "aborted"
    /\ UNCHANGED << reply_mapping, pool_size, inbox_results, spam_results,
                    results, idx, fetched, tasks, sends, rdels, odels,
                    present, sentbox >>
    /\ accessed' = TRUE
    /\ UNCHANGED << message_vars, side_vars,
                    entry_vars >>

\* messages().list(labelIds=["SPAM"]) returns; results holds both listings
ListSpam ==
    /\ pc = "list_spam"
    /\ spam_results' \in ListResponses(SpamIds)
    /\ results' = Merge(inbox_results, spam_results')
    /\ sends' = [i \in 1..Len(results') |-> 0]
    /\ rdels' = [i \in 1..Len(results') |-> 0]
    /\ odels' = [i \in 1..Len(results') |-> 0]
    /\ pc' = "loop"
    /\ UNCHANGED << reply_mapping, pool_size, inbox_results, idx, fetched,
                    tasks, present, sentbox, failures >>
    /\ UNCHANGED << accessed, message_vars, side_vars,
                    entry_vars >>

\* messages().list(labelIds=["SPAM"]) raises
ListSpamRaises ==
    /\ pc = "list_spam"
    /\ failures < MaxFailures
    /\ failures' = failures + 1
    /\ pc' = "aborted"
    /\ UNCHANGED << reply_mapping, pool_size, inbox_results, spam_results,
                    results, idx, fetched, tasks, sends, rdels, odels,
                    present, sentbox >>
    /\ UNCHANGED << accessed, message_vars, side_vars,
                    entry_vars >>

\* one iteration head: messages().get, the From lookup and the test on
\* reply_mapping; a matched message has its send_reply calls set up
GetMessage ==
    /\ pc = "loop"
    /\ idx <= Len(results)
    /\ results[idx].id \in present
    /\ fetched' = Append(fetched, results[idx].id)
    /\ LET message == Mailbox[results[idx].id]
           from_field == get_header_field(message.headers, "From")
       IN IF Unmatched(from_field, reply_mapping)
          THEN /\ idx' = idx + 1
               /\ UNCHANGED << pc, tasks >>
          ELSE LET reply_attributes == reply_mapping[from_field.value]
               IN /\ tasks' = [t \in TaskIndexes(reply_attributes) |->
                                  NewTask(KeepReply(reply_attributes))]
                  /\ pc' = IF UsesPool(reply_attributes)
                           THEN "pool" ELSE "inline"
                  /\ UNCHANGED idx
    /\ UNCHANGED << reply_mapping, pool_size, inbox_results, spam_results,
                    results, sends, rdels, odels, present, sentbox,
                    failures >>
    /\ UNCHANGED << accessed, message_vars, side_vars,
                    entry_vars >>

\* messages().get raises: a transport failure, or the message is gone
GetMessageRaisesSkips ==
    /\ pc = "loop"
    /\ idx <= Len(results)
    /\ \/ /\ failures < MaxFailures
          /\ failures' = failures + 1
       \/ /\ results[idx].id \notin present
          /\ UNCHANGED failures
    /\ fetched' = Append(fetched, results[idx].id)
    /\ idx' = idx + 1
    /\ UNCHANGED << reply_mapping, pool_size, pc, inbox_results,
                    spam_results, results, tasks, sends, rdels, odels,
                    present, sentbox >>
    /\ UNCHANGED << accessed, message_vars, side_vars,
                    entry_vars >>

GetMessageRaises ==
    /\ pc = "loop"
    /\ idx <= Len(results)
    /\ \/ /\ failures < MaxFailures
          /\ failures' = failures + 1
       \/ /\ results[idx].id \notin present
          /\ UNCHANGED failures
    /\ fetched' = Append(fetched, results[idx].id)
    /\ pc' = "aborted"
    /\ UNCHANGED << reply_mapping, pool_size, inbox_results, spam_results,
                    results, idx, tasks, sends, rdels, odels, present,
                    sentbox >>
    /\ UNCHANGED << accessed, message_vars, side_vars,
                    entry_vars >>

\* ---------------------------------------------------------- send_reply
\* a send_reply call starts: inline at once, in the pool when a worker
\* is free; the pool hands its tasks out in order
StartSendReplyNoLimit(t) ==
    /\ pc \in {"pool", "inline"}
    /\ tasks[t].st = "pending"
    /\ \A u \in DOMAIN tasks : u < t => tasks[u].st # "pending"
    /\ tasks' = [tasks EXCEPT ![t].st = "send", ![t].att = 1]
    /\ UNCHANGED << reply_mapping, pool_size, pc, inbox_results,
                    spam_results, results, idx, fetched, sends, rdels, odels,
                    present, sentbox, failures >>
    /\ UNCHANGED << accessed, message_vars, side_vars,
                    entry_vars >>

StartSendReply(t) ==
    /\ pc \in {"pool", "inline"}
    /\ tasks[t].st = "pending"
    /\ \A u \in DOMAIN tasks : u < t => tasks[u].st # "pending"
    /\ pc = "pool" => Cardinality(Running(tasks)) < pool_size
    /\ tasks' = [tasks EXCEPT ![t].st = "send", ![t].att = 1]
    /\ UNCHANGED << reply_mapping, pool_size, pc, inbox_results,
                    spam_results, results, idx, fetched, sends, rdels, odels,
                    present, sentbox, failures >>
    /\ UNCHANGED << accessed, message_vars, side_vars,
                    entry_vars >>

\* messages().send returns the new reply
SendOk(t) ==
    /\ pc \in {"pool", "inline"}
    /\ tasks[t].st = "send"
    /\ ~outage
    /\ tasks' = [tasks EXCEPT ![t].sends = @ + 1,
                              ![t].sendAtt = tasks[t].att,
                              ![t].st = AfterSend(tasks[t].keep)]
    /\ sends' = [sends EXCEPT ![idx] = @ + 1]
    /\ sentbox' = sentbox \cup {ReplyId(idx, t, tasks[t].sends + 1)}
    /\ UNCHANGED << reply_mapping, pool_size, pc, inbox_results,
                    spam_results, results, idx, fetched, rdels, odels,
                    present, failures >>
    /\ UNCHANGED << accessed, message_vars, side_vars,
                    entry_vars >>

\* messages().send raises
SendRaises(t) ==
    /\ pc \in {"pool", "inline"}
    /\ tasks[t].st = "send"
    /\ failures < MaxFailures
    /\ failures' = failures + 1
    /\ tasks' = [tasks EXCEPT ![t].sfail = @ + 1,
                              ![t].warns = @ + Warnings("send"),
                              ![t].att = @ + 1,
                              ![t].st = AfterError("send")]
    /\ UNCHANGED << reply_mapping, pool_size, pc, inbox_results,
                    spam_results, results, idx, fetched, sends, rdels, odels,
                    present, sentbox >>
    /\ UNCHANGED << accessed, message_vars, side_vars,
                    entry_vars >>

\* after the delay, messages().delete of the reply just sent returns
DeleteReplyOk(t) ==
    /\ pc \in {"pool", "inline"}
    /\ tasks[t].st = "delete"
    /\ tasks' = [tasks EXCEPT ![t].dels = @ + 1,
                              ![t].delAtt = tasks[t].att,
                              ![t].st = "returned"]
    /\ rdels' = [rdels EXCEPT ![idx] = @ + 1]
    /\ sentbox' = sentbox \ {ReplyId(idx, t, tasks[t].sends)}
    /\ UNCHANGED << reply_mapping, pool_size, pc, inbox_results,
                    spam_results, results, idx, fetched, sends, odels,
                    present, failures >>
    /\ UNCHANGED << accessed, message_vars, side_vars,
                    entry_vars >>

\* after the delay, messages().delete of the reply just sent raises
DeleteReplyRaisesSurfaces(t) ==
    /\ pc \in {"pool", "inline"}
    /\ tasks[t].st = "delete"
    /\ failures < MaxFailures
    /\ failures' = failures + 1
    /\ tasks' = [tasks EXCEPT ![t].dels = @ + 1,
                              ![t].dfail = @ + 1,
                              ![t].st = "returned"]
    /\ rdels' = [rdels EXCEPT ![idx] = @ + 1]
    /\ pc' = "aborted"
    /\ UNCHANGED << reply_mapping, pool_size, inbox_results,
                    spam_results, results, idx, fetched, sends, odels,
                    present, sentbox >>
    /\ UNCHANGED << accessed, message_vars, side_vars,
                    entry_vars >>

DeleteReplyRaises(t) ==
    /\ pc \in {"pool", "inline"}
    /\ tasks[t].st = "delete"
    /\ failures < MaxFailures
    /\ failures' = failures + 1
    /\ tasks' = [tasks EXCEPT ![t].dels = @ + 1,
                              ![t].dfail = @ + 1,
                              ![t].warns = @ + Warnings("delete"),
                              ![t].att = @ + 1,
                              ![t].st = AfterError("delete")]
    /\ rdels' = [rdels EXCEPT ![idx] = @ + 1]
    /\ UNCHANGED << reply_mapping, pool_size, pc, inbox_results,
                    spam_results, results, idx, fetched, sends, odels,
                    present, sentbox >>
    /\ UNCHANGED << accessed, message_vars, side_vars,
                    entry_vars >>

\* ------------------------------------------------- execute, continued
\* pool.starmap has returned and the pool is closed, or the inline
\* send_reply has returned
\* the replies are handed to the pool and the loop goes on to the next
\* identifier without waiting for them
FanoutReturnsAsync ==
    /\ pc \in {"pool", "inline"}
    /\ idx' = idx + 1
    /\ pc' = "loop"
    /\ UNCHANGED << reply_mapping, pool_size, inbox_results, spam_results,
                    results, fetched, tasks, sends, rdels, odels,
                    present, sentbox, failures >>
    /\ UNCHANGED << accessed, message_vars, side_vars,
                    entry_vars >>

FanoutReturns ==
    /\ pc \in {"pool", "inline"}
    /\ StarmapReturns(tasks)
    /\ pc' = "delete_orig"
    /\ UNCHANGED << reply_mapping, pool_size, inbox_results, spam_results,
                    results, idx, fetched, tasks, sends, rdels, odels,
                    present, sentbox, failures >>
    /\ UNCHANGED << accessed, message_vars, side_vars,
                    entry_vars >>

\* messages().delete of the original returns; next iteration
DeleteOriginalUnlessRetried ==
    /\ pc = "delete_orig"
    /\ odels' = IF \A t \in DOMAIN tasks : tasks[t].warns = 0
                THEN [odels EXCEPT ![idx] = @ + 1] ELSE odels
    /\ present' = IF \A t \in DOMAIN tasks : tasks[t].warns = 0
                  THEN present \ {results[idx].id} ELSE present
    /\ tasks' = << >>
    /\ idx' = idx + 1
    /\ pc' = "loop"
    /\ UNCHANGED << reply_mapping, pool_size, inbox_results, spam_results,
                    results, fetched, sends, rdels, sentbox, failures >>
    /\ UNCHANGED << accessed, message_vars, side_vars,
                    entry_vars >>

DeleteOriginal ==
    /\ pc = "delete_orig"
    /\ odels' = [odels EXCEPT ![idx] = @ + 1]
    /\ present' = present \ {results[idx].id}
    /\ tasks' = << >>
    /\ idx' = idx + 1
    /\ pc' = "loop"
    /\ UNCHANGED << reply_mapping, pool_size, inbox_results, spam_results,
                    results, fetched, sends, rdels, sentbox, failures >>
    /\ UNCHANGED << accessed, message_vars, side_vars,
                    entry_vars >>

\* messages().delete of the original raises
DeleteOriginalRaises ==
    /\ pc = "delete_orig"
    /\ failures < MaxFailures
    /\ failures' = failures + 1
    /\ odels' = [odels EXCEPT ![idx] = @ + 1]
    /\ pc' = "aborted"
    /\ UNCHANGED << reply_mapping, pool_size, inbox_results, spam_results,
                    results, idx, fetched, tasks, sends, rdels, present,
                    sentbox >>
    /\ UNCHANGED << accessed, message_vars, side_vars,
                    entry_vars >>

\* the for loop is exhausted
Finish ==
    /\ pc = "loop"
    /\ idx > Len(results)
    /\ pc' = "done"
    /\ UNCHANGED << reply_mapping, pool_size, inbox_results, spam_results,
                    results, idx, fetched, tasks, sends, rdels, odels,
                    present, sentbox, failures >>
    /\ UNCHANGED << accessed, message_vars, side_vars,
                    entry_vars >>

Next ==
    \/ ListInbox
    \/ ListInboxRaises
    \/ ListSpam
    \/ ListSpamRaises
    \/ GetMessage
    \/ GetMessageRaises
    \/ \E t \in DOMAIN tasks : StartSendReply(t)
    \/ \E t \in DOMAIN tasks : SendOk(t)
    \/ \E t \in DOMAIN tasks : SendRaises(t)
    \/ \E t \in DOMAIN tasks : DeleteReplyOk(t)
    \/ \E t \in DOMAIN tasks : DeleteReplyRaises(t)
    \/ FanoutReturns
    \/ DeleteOriginal
    \/ DeleteOriginalRaises
    \/ Finish

Spec == Init /\ [][Next]_vars

\* ------------------------------------------- command line, credentials
execute_vars == << reply_mapping, pool_size, inbox_results, spam_results,
                  results, idx, fetched, tasks, sends, rdels, odels,
                  present, sentbox, failures, accessed, message_vars,
                  side_vars >>

\* the process is started: nothing constructed yet; the configuration
\* file maps a@b.com to an empty policy
InitMain ==
    /\ reply_mapping = [s \in {"a@b.com", ""} |-> << >>]
    /\ pool_size = 1
    /\ pc = "main"
    /\ inbox_results = << >>
    /\ spam_results = << >>
    /\ results = << >>
    /\ idx = 1
    /\ fetched = << >>
    /\ tasks = << >>
    /\ sends = << >>
    /\ rdels = << >>
    /\ odels = << >>
    /\ present = MessageIds
    /\ sentbox = {}
    /\ failures = 0
    /\ accessed = FALSE
    /\ fetched_message = None
    /\ out = [op |-> "none"]
    /\ outage = FALSE
    /\ SideIdle
    /\ argv \in { << "gmailautobouncer" >>,
                  << "gmailautobouncer", "missing.json" >>,
                  << "gmailautobouncer", ConfigPath >> }
    /\ exited = FALSE
    /\ exit_status = 0
    /\ printed = 0
    /\ constructed = 0
    /\ executes = 0
    /\ cred = "none"
    /\ token_writes = 0

\* the status of sys.exit() without an argument
SysExitStatus == 0

\* main without a path on the command line: print and sys.exit()
MainMissingArgument ==
    /\ pc = "main"
    /\ ~(1 < Len(argv))
    /\ printed' = printed + 1
    /\ exited' = TRUE
    /\ exit_status' = SysExitStatus
    /\ pc' = "exited"
    /\ UNCHANGED << execute_vars, argv, constructed, executes, cred,
                    token_writes >>

\* main with a path that does not exist: print and sys.exit()
MainFileNotFound ==
    /\ pc = "main"
    /\ 1 < Len(argv)
    /\ argv[2] \notin ExistingPaths
    /\ printed' = printed + 1
    /\ exited' = TRUE
    /\ exit_status' = SysExitStatus
    /\ pc' = "exited"
    /\ UNCHANGED << execute_vars, argv, constructed, executes, cred,
                    token_writes >>

\* main with an existing path: the bouncer is constructed and execute
\* is called
MainConstruct ==
    /\ pc = "main"
    /\ 1 < Len(argv)
    /\ argv[2] \in ExistingPaths
    /\ constructed' = constructed + 1
    /\ executes' = executes + 1
    /\ pc' = "credentials"
    /\ UNCHANGED << execute_vars, argv, exited, exit_status, printed, cred,
                    token_writes >>

\* __get_credentials: the token file holds valid credentials
CredentialsValid ==
    /\ pc = "credentials"
    /\ cred' = "valid"
    /\ pc' = "list_inbox"
    /\ UNCHANGED << execute_vars, argv, exited, exit_status, printed,
                    constructed, executes, token_writes >>

\* __get_credentials: expired credentials with a refresh token are
\* refreshed and written to the token file
CredentialsRefreshed ==
    /\ pc = "credentials"
    /\ cred' = "refreshed"
    /\ token_writes' = token_writes + 1
    /\ pc' = "list_inbox"
    /\ UNCHANGED << execute_vars, argv, exited, exit_status, printed,
                    constructed, executes >>

\* variant: the RefreshError is swallowed and execute goes on
CredentialsRefreshErrorIgnored ==
    /\ pc = "credentials"
    /\ cred' = "refresh_error"
    /\ token_writes' = token_writes + 1
    /\ pc' = "list_inbox"
    /\ UNCHANGED << execute_vars, argv, exited, exit_status, printed,
                    constructed, executes >>

\* __get_credentials: the refresh raises RefreshError: warning, sys.exit()
CredentialsRefreshError ==
    /\ pc = "credentials"
    /\ cred' = "refresh_error"
    /\ exited' = TRUE
    /\ exit_status' = SysExitStatus
    /\ pc' = "exited"
    /\ UNCHANGED << execute_vars, argv, printed, constructed, executes,
                    token_writes >>

\* __get_credentials: no token file, or credentials that cannot be
\* refreshed: the local server flow gives new ones, written to the file
CredentialsFlow ==
    /\ pc = "credentials"
    /\ cred' = "flow"
    /\ token_writes' = token_writes + 1
    /\ pc' = "list_inbox"
    /\ UNCHANGED << execute_vars, argv, exited, exit_status, printed,
                    constructed, executes >>

\* execute has returned, main returns: the interpreter exits with 0
MainReturns ==
    /\ pc = "done"
    /\ exited' = TRUE
    /\ exit_status' = 0
    /\ pc' = "exited"
    /\ UNCHANGED << execute_vars, argv, printed, constructed, executes,
                    cred, token_writes >>

\* an exception left execute and main: the interpreter exits with 1
MainRaises ==
    /\ pc = "aborted"
    /\ exited' = TRUE
    /\ exit_status' = 1
    /\ pc' = "exited"
    /\ UNCHANGED << execute_vars, argv, printed, constructed, executes,
                    cred, token_writes >>

NextMain ==
    \/ MainMissingArgument
    \/ MainFileNotFound
    \/ MainConstruct
    \/ CredentialsValid
    \/ CredentialsRefreshed
    \/ CredentialsRefreshError
    \/ CredentialsFlow
    \/ Next
    \/ MainReturns
    \/ MainRaises

SpecMain == InitMain /\ [][NextMain]_vars

\* ------------------------------------------------ one message at a time
run_vars == << pc, reply_mapping, pool_size, inbox_results, spam_results,
              results, idx, fetched, tasks, sends, rdels, odels, present,
              sentbox, failures, accessed, side_vars, entry_vars >>

\* execute holds a message; nothing else of the run matters
InitIdle ==
    /\ pool_size = 1
    /\ pc = "message"
    /\ inbox_results = << >>
    /\ spam_results = << >>
    /\ results = << >>
    /\ idx = 1
    /\ fetched = << >>
    /\ tasks = << >>
    /\ sends = << >>
    /\ rdels = << >>
    /\ odels = << >>
    /\ present = MessageIds
    /\ sentbox = {}
    /\ failures = 0
    /\ accessed = TRUE
    /\ argv = << "gmailautobouncer", ConfigPath >>
    /\ exited = FALSE
    /\ exit_status = 0
    /\ printed = 0
    /\ constructed = 1
    /\ executes = 1
    /\ cred = "valid"
    /\ token_writes = 0
    /\ out = [op |-> "none"]
    /\ outage = FALSE
    /\ SideIdle

\* any header list, with the mapping keyed by the plain address or by
\* the address with a display name
InitLookup ==
    /\ InitIdle
    /\ reply_mapping \in
           { [s \in {"a@b.com", ""} |-> << >>],
             [s \in {"Bob <a@b.com>", ""} |-> [prefix |-> "GO AWAY"]] }
    /\ \E headers \in HeaderLists :
           fetched_message = [payload |-> [k \in {"headers"} |-> headers],
                      snippet |-> "full"]

\* __get_header_field applied to the headers of the message
GetHeaderField(field_name) ==
    /\ pc = "message"
    /\ out' = [op |-> "get_header_field",
               field_name |-> field_name,
               result |-> get_header_field(fetched_message.payload["headers"],
                                           field_name)]
    /\ UNCHANGED << fetched_message, run_vars >>

\* execute: the From lookup, the test on reply_mapping and the policy
MatchSender ==
    /\ pc = "message"
    /\ LET from_field == get_header_field(fetched_message.payload["headers"],
                                          "From")
       IN out' = IF Unmatched(from_field, reply_mapping)
                 THEN [op |-> "match", matched |-> FALSE]
                 ELSE [op |-> "match", matched |-> TRUE,
                       reply_attributes |->
                           reply_mapping[from_field.value]]
    /\ UNCHANGED << fetched_message, run_vars >>

NextLookup ==
    \/ \E field_name \in FieldNames : GetHeaderField(field_name)
    \/ MatchSender

SpecLookup == InitLookup /\ [][NextLookup]_vars

\* a matched message, with any policy for its sender
InitReply ==
    /\ InitIdle
    /\ \E p \in ReplyPolicies : reply_mapping = [s \in {"a@b.com"} |-> p]
    /\ \E headers \in HeaderLists :
           /\ ~Unmatched(get_header_field(headers, "From"), reply_mapping)
           /\ fetched_message \in Messages(headers)

\* execute for a matched message: __process_message, __construct_reply
BuildReply ==
    /\ pc = "message"
    /\ LET from_field == get_header_field(fetched_message.payload["headers"],
                                          "From")
       IN /\ ~Unmatched(from_field, reply_mapping)
          /\ ~process_message_raises(fetched_message)
          /\ LET reply_attributes == reply_mapping[from_field.value]
                 processed == process_message(fetched_message)
             IN out' = [op |-> "construct_reply",
                        raw_reply |->
                            construct_reply(from_field,
                                            processed.date_field,
                                            processed.to_field,
                                            processed.subject_field,
                                            processed.message_body,
                                            reply_attributes,
                                            DefaultPrefix)]
    /\ UNCHANGED << fetched_message, run_vars >>

\* execute for a matched message: __process_message raises
BuildReplyRaises ==
    /\ pc = "message"
    /\ ~Unmatched(get_header_field(fetched_message.payload["headers"], "From"),
                  reply_mapping)
    /\ process_message_raises(fetched_message)
    /\ out' = [op |-> "raised"]
    /\ UNCHANGED << fetched_message, run_vars >>

NextReply ==
    \/ BuildReply
    \/ BuildReplyRaises

SpecReply == InitReply /\ [][NextReply]_vars

\* ------------------------------------------------ configuration store
\* the property names and values used with the store
PropertyNames == {"a", "b"}

PropertyValues == 1..MaxValue

\* the paths given to the store
StorePaths ==
    {"config.json", "more.json", "empty.json", "bad.json", "missing.json"}

\* the files that open and parse as JSON, with the object they hold;
\* bad.json does not parse and missing.json does not exist
\* bouncer.json and other.json are configurations of the bouncer
BouncerProperties ==
    {"logging_config", "reply_mapping", "default_prefix", "pool_size",
     "delete_delay"}

JsonFiles ==
    [path \in {"config.json", "more.json", "empty.json", "bouncer.json",
               "other.json"} |->
        CASE path = "config.json" -> [k \in {"a", "b"} |-> 1]
          [] path = "more.json" -> [k \in {"b"} |-> 2]
          [] path = "empty.json" -> << >>
          [] path = "bouncer.json" -> [k \in BouncerProperties |-> 1]
          [] path = "other.json" -> [k \in BouncerProperties |-> 2]]

\* truth value of __config: None and the empty dict are false
ConfigTruthy(cfg) == cfg.type = "dict" /\ DOMAIN cfg.items # {}

\* dict operations: d[name] = value, d.pop(name), d.update(other)
DictPut(items, name, value) ==
    [k \in DOMAIN items \cup {name} |->
        IF k = name THEN value ELSE items[k]]

DictPop(items, name) == [k \in DOMAIN items \ {name} |-> items[k]]

DictUpdate(items, other) ==
    [k \in DOMAIN items \cup DOMAIN other |->
        IF k \in DOMAIN other THEN other[k] ELSE items[k]]

\* each method of ConfigurationManager: the new __config and the value
\* returned
load_configuration_resets(cfg, path) ==
    IF path \in DOMAIN JsonFiles
    THEN [config |-> PyDict(JsonFiles[path]), result |-> PyBool(TRUE)]
    ELSE [config |-> PyNone, result |-> PyBool(FALSE)]

load_configuration(cfg, path) ==
    IF path \in DOMAIN JsonFiles
    THEN [config |-> PyDict(JsonFiles[path]), result |-> PyBool(TRUE)]
    ELSE [config |-> cfg, result |-> PyBool(FALSE)]

add_configuration(cfg, path) ==
    IF ConfigTruthy(cfg)
    THEN IF path \in DOMAIN JsonFiles
         THEN [config |-> PyDict(DictUpdate(cfg.items, JsonFiles[path])),
               result |-> PyBool(TRUE)]
         ELSE [config |-> cfg, result |-> PyNone]
    ELSE [config |-> cfg, result |-> PyBool(FALSE)]

get_property(cfg, name) ==
    IF ConfigTruthy(cfg)
    THEN IF name \in DOMAIN cfg.items
         THEN [config |-> cfg, result |-> PyValue(cfg.items[name])]
         ELSE [config |-> cfg, result |-> PyNone]
    ELSE [config |-> cfg, result |-> PyNone]

add_property(cfg, name, value) ==
    IF ConfigTruthy(cfg)
    THEN IF name \notin DOMAIN cfg.items
         THEN [config |-> PyDict(DictPut(cfg.items, name, value)),
               result |-> PyBool(TRUE)]
         ELSE [config |-> cfg, result |-> PyBool(FALSE)]
    ELSE [config |-> cfg, result |-> PyBool(FALSE)]

update_property_upsert(cfg, name, value) ==
    IF ConfigTruthy(cfg)
    THEN [config |-> PyDict(DictPut(cfg.items, name, value)),
          result |-> PyBool(name \in DOMAIN cfg.items)]
    ELSE [config |-> cfg, result |-> PyBool(FALSE)]

update_property(cfg, name, value) ==
    IF ConfigTruthy(cfg)
    THEN IF name \in DOMAIN cfg.items
         THEN [config |-> PyDict(DictPut(cfg.items, name, value)),
               result |-> PyBool(TRUE)]
         ELSE [config |-> cfg, result |-> PyBool(FALSE)]
    ELSE [config |-> cfg, result |-> PyBool(FALSE)]

remove_property(cfg, name) ==
    IF ConfigTruthy(cfg)
    THEN IF name \in DOMAIN cfg.items
         THEN [config |-> PyDict(DictPop(cfg.items, name)),
               result |-> PyBool(TRUE)]
         ELSE [config |-> cfg, result |-> PyBool(FALSE)]
    ELSE [config |-> cfg, result |-> PyBool(FALSE)]

rename_property(cfg, old_name, new_name) ==
    IF ConfigTruthy(cfg)
    THEN IF old_name \in DOMAIN cfg.items
         THEN [config |-> PyDict(DictPut(DictPop(cfg.items, old_name),
                                         new_name, cfg.items[old_name])),
               result |-> PyBool(TRUE)]
         ELSE [config |-> cfg, result |-> PyBool(FALSE)]
    ELSE [config |-> cfg, result |-> PyBool(FALSE)]

get_all_property_names(cfg) ==
    IF ConfigTruthy(cfg)
    THEN [config |-> cfg,
          result |-> [type |-> "keys", value |-> DOMAIN cfg.items]]
    ELSE [config |-> cfg, result |-> PyNone]

clear_properties(cfg) ==
    IF ConfigTruthy(cfg)
    THEN [config |-> PyNone, result |-> PyBool(TRUE)]
    ELSE [config |-> cfg, result |-> PyBool(FALSE)]

store_frame == << pc, reply_mapping, pool_size, inbox_results, spam_results,
                 results, idx, fetched, tasks, sends, rdels, odels, present,
                 sentbox, failures, accessed, message_vars, outage, procs,
                 entry_vars >>

\* the class is imported: no configuration is loaded
InitStore ==
    /\ pool_size = 1
    /\ reply_mapping = << >>
    /\ pc = "store"
    /\ inbox_results = << >>
    /\ spam_results = << >>
    /\ results = << >>
    /\ idx = 1
    /\ fetched = << >>
    /\ tasks = << >>
    /\ sends = << >>
    /\ rdels = << >>
    /\ odels = << >>
    /\ present = MessageIds
    /\ sentbox = {}
    /\ failures = 0
    /\ accessed = FALSE
    /\ fetched_message = None
    /\ out = [op |-> "none"]
    /\ outage = FALSE
    /\ SideIdle
    /\ argv = << "gmailautobouncer", ConfigPath >>
    /\ exited = FALSE
    /\ exit_status = 0
    /\ printed = 0
    /\ constructed = 0
    /\ executes = 0
    /\ cred = "none"
    /\ token_writes = 0

LoadConfiguration(path) ==
    /\ pc = "store"
    /\ LET r == load_configuration(config, path)
       IN /\ config' = r.config
          /\ last' = [op |-> "load_configuration", path |-> path,
                      before |-> config, result |-> r.result]
          /\ loaded' = (loaded \/ r.result = PyBool(TRUE))
    /\ UNCHANGED << conf_man, instances, store_frame >>

AddConfiguration(path) ==
    /\ pc = "store"
    /\ LET r == add_configuration(config, path)
       IN /\ config' = r.config
          /\ last' = [op |-> "add_configuration", path |-> path,
                      before |-> config, result |-> r.result]
    /\ UNCHANGED << loaded, conf_man, instances, store_frame >>

GetProperty(name) ==
    /\ pc = "store"
    /\ LET r == get_property(config, name)
       IN /\ config' = r.config
          /\ last' = [op |-> "get_property", name |-> name,
                      before |-> config, result |-> r.result]
    /\ UNCHANGED << loaded, conf_man, instances, store_frame >>

AddProperty(name, value) ==
    /\ pc = "store"
    /\ LET r == add_property(config, name, value)
       IN /\ config' = r.config
          /\ last' = [op |-> "add_property", name |-> name,
                      value |-> value, before |-> config,
                      result |-> r.result]
    /\ UNCHANGED << loaded, conf_man, instances, store_frame >>

UpdateProperty(name, value) ==
    /\ pc = "store"
    /\ LET r == update_property(config, name, value)
       IN /\ config' = r.config
          /\ last' = [op |-> "update_property", name |-> name,
                      value |-> value, before |-> config,
                      result |-> r.result]
    /\ UNCHANGED << loaded, conf_man, instances, store_frame >>

RemoveProperty(name) ==
    /\ pc = "store"
    /\ LET r == remove_property(config, name)
       IN /\ config' = r.config
          /\ last' = [op |-> "remove_property", name |-> name,
                      before |-> config, result |-> r.result]
    /\ UNCHANGED << loaded, conf_man, instances, store_frame >>

RenameProperty(old_name, new_name) ==
    /\ pc = "store"
    /\ LET r == rename_property(config, old_name, new_name)
       IN /\ config' = r.config
          /\ last' = [op |-> "rename_property", name |-> old_name,
                      new_name |-> new_name, before |-> config,
                      result |-> r.result]
    /\ UNCHANGED << loaded, conf_man, instances, store_frame >>

GetAllPropertyNames ==
    /\ pc = "store"
    /\ LET r == get_all_property_names(config)
       IN /\ config' = r.config
          /\ last' = [op |-> "get_all_property_names", before |-> config,
                      result |-> r.result]
    /\ UNCHANGED << loaded, conf_man, instances, store_frame >>

ClearProperties ==
    /\ pc = "store"
    /\ LET r == clear_properties(config)
       IN /\ config' = r.config
          /\ last' = [op |-> "clear_properties", before |-> config,
                      result |-> r.result]
    /\ loaded' = FALSE
    /\ UNCHANGED << conf_man, instances, store_frame >>

NextStore ==
    \/ \E path \in StorePaths : LoadConfiguration(path)
    \/ \E path \in StorePaths : AddConfiguration(path)
    \/ \E name \in PropertyNames : GetProperty(name)
    \/ \E name \in PropertyNames, value \in PropertyValues :
           AddProperty(name, value)
    \/ \E name \in PropertyNames, value \in PropertyValues :
           UpdateProperty(name, value)
    \/ \E name \in PropertyNames : RemoveProperty(name)
    \/ \E old_name, new_name \in PropertyNames :
           RenameProperty(old_name, new_name)
    \/ GetAllPropertyNames
    \/ ClearProperties

SpecStore == InitStore /\ [][NextStore]_vars

\* ------------------------------------------- GmailAutoBouncer.__init__
\* the paths given to the constructor
ConstructPaths ==
    {"bouncer.json", "other.json", "empty.json", "bad.json", "missing.json"}

\* __init__: the first call sets _conf_man, loads the file and configures
\* logging, which raises without a logging_config; every call reads its
\* attributes from the store
ConstructReloads(config_path) ==
    /\ pc = "store"
    /\ Len(instances) < MaxInstances
    /\ LET cfg == load_configuration(config, config_path).config
           raises == get_property(cfg, "logging_config").result = PyNone
       IN /\ conf_man' = TRUE
          /\ config' = cfg
          /\ last' = [op |-> "__init__", path |-> config_path,
                      raised |-> raises]
          /\ instances' =
                 IF raises
                 THEN instances
                 ELSE Append(instances,
                        [config_path |-> config_path,
                         loaded_here |-> TRUE,
                         reply_mapping |->
                             get_property(cfg, "reply_mapping").result,
                         default_prefix |->
                             get_property(cfg, "default_prefix").result,
                         pool_size |->
                             get_property(cfg, "pool_size").result,
                         delete_delay |->
                             get_property(cfg, "delete_delay").result])
    /\ UNCHANGED << loaded, store_frame >>

Construct(config_path) ==
    /\ pc = "store"
    /\ Len(instances) < MaxInstances
    /\ LET cfg == IF ~conf_man
                  THEN load_configuration(config, config_path).config
                  ELSE config
           raises == /\ ~conf_man
                     /\ get_property(cfg, "logging_config").result = PyNone
       IN /\ conf_man' = TRUE
          /\ config' = cfg
          /\ last' = [op |-> "__init__", path |-> config_path,
                      raised |-> raises]
          /\ instances' =
                 IF raises
                 THEN instances
                 ELSE Append(instances,
                        [config_path |-> config_path,
                         loaded_here |-> ~conf_man,
                         reply_mapping |->
                             get_property(cfg, "reply_mapping").result,
                         default_prefix |->
                             get_property(cfg, "default_prefix").result,
                         pool_size |->
                             get_property(cfg, "pool_size").result,
                         delete_delay |->
                             get_property(cfg, "delete_delay").result])
    /\ UNCHANGED << loaded, store_frame >>

NextInstances == \E config_path \in ConstructPaths : Construct(config_path)

SpecInstances == InitStore /\ [][NextInstances]_vars

\* ------------------------------------------------- NonDaemonicPool
\* NonDaemonicProcess.daemon, read: False in all cases
daemon_getter(proc) == FALSE

\* NonDaemonicProcess.daemon, assigned: nothing is stored
daemon_setter_stores(proc, value) == [proc EXCEPT !.stored = value]

daemon_setter(proc, value) == proc

\* a bool as text
BoolText(b) == IF b THEN "True" ELSE "False"

\* a process created by the process par (0 is the main process): it
\* inherits the stored flag of its creator
NewProcess(par) ==
    [parent |-> par,
     assigned |-> "none",   \* the last value assigned to daemon
     stored |-> IF par = 0 THEN FALSE ELSE procs[par].stored,
     read |-> "none"]       \* the last value read from daemon

pool_frame == << pc, reply_mapping, pool_size, inbox_results, spam_results,
                results, idx, fetched, tasks, sends, rdels, odels, present,
                sentbox, failures, accessed, message_vars, outage,
                config_vars, entry_vars >>

\* a NonDaemonicPool of the process par creates a worker through
\* NonDaemonicContext.Process, assigns daemon = True and starts it; a
\* process whose stored flag is set may not start children
PoolStartsWorker(par) ==
    /\ pc = "store"
    /\ Len(procs) < MaxProcs
    /\ IF par = 0 THEN TRUE ELSE ~procs[par].stored
    /\ procs' = Append(procs,
                       [daemon_setter(NewProcess(par), TRUE)
                            EXCEPT !.assigned = BoolText(TRUE)])
    /\ UNCHANGED pool_frame

\* daemon of a process is assigned
AssignDaemon(p, value) ==
    /\ pc = "store"
    /\ procs' = [procs EXCEPT
                    ![p] = [daemon_setter(@, value)
                                EXCEPT !.assigned = BoolText(value)]]
    /\ UNCHANGED pool_frame

\* daemon of a process is read
ReadDaemon(p) ==
    /\ pc = "store"
    /\ procs' = [procs EXCEPT ![p].read = BoolText(daemon_getter(@))]
    /\ UNCHANGED pool_frame

NextPool ==
    \/ \E par \in 0..Len(procs) : PoolStartsWorker(par)
    \/ \E p \in DOMAIN procs, value \in BOOLEAN : AssignDaemon(p, value)
    \/ \E p \in DOMAIN procs : ReadDaemon(p)

SpecPool == InitStore /\ [][NextPool]_vars

\* ------------------------------------------- send_reply under an outage
\* the run from the first iteration of the for loop on, with the service
\* either answering or in an outage that lasts for the whole run
InitRetry ==
    /\ reply_mapping \in ReplyMappings
    /\ pool_size \in PoolSizes
    /\ pc = "loop"
    /\ inbox_results = [k \in {"messages"} |->
                           << [id |-> "m2"], [id |-> "m1"] >>]
    /\ spam_results = [k \in {"messages"} |-> << [id |-> "m3"] >>]
    /\ results = Merge(inbox_results, spam_results)
    /\ idx = 1
    /\ fetched = << >>
    /\ tasks = << >>
    /\ sends = [i \in 1..Len(results) |-> 0]
    /\ rdels = [i \in 1..Len(results) |-> 0]
    /\ odels = [i \in 1..Len(results) |-> 0]
    /\ present = MessageIds
    /\ sentbox = {}
    /\ failures = 0
    /\ accessed = TRUE
    /\ fetched_message = None
    /\ out = [op |-> "none"]
    /\ outage \in BOOLEAN
    /\ config = PyNone
    /\ last = [op |-> "none"]
    /\ loaded = FALSE
    /\ conf_man = FALSE
    /\ instances = << >>
    /\ procs = << >>
    /\ argv = << "gmailautobouncer", ConfigPath >>
    /\ exited = FALSE
    /\ exit_status = 0
    /\ printed = 0
    /\ constructed = 0
    /\ executes = 0
    /\ cred = "none"
    /\ token_writes = 0

\* messages().send raises during the outage; the except clause logs the
\* warning and the while loop goes round again, and would here return
SendRaisesOutageGivesUp(t) ==
    /\ pc \in {"pool", "inline"}
    /\ tasks[t].st = "send"
    /\ outage
    /\ tasks[t].att < MaxRetries
    /\ tasks' = [tasks EXCEPT ![t].sfail = @ + 1,
                              ![t].warns = @ + Warnings("send"),
                              ![t].att = @ + 1,
                              ![t].st = "returned"]
    /\ UNCHANGED << reply_mapping, pool_size, pc, inbox_results,
                    spam_results, results, idx, fetched, sends, rdels, odels,
                    present, sentbox, failures >>
    /\ UNCHANGED << accessed, message_vars, side_vars,
                    entry_vars >>

\* messages().send raises during the outage; the except clause logs the
\* warning and the while loop goes round again (the iterations observed are
\* capped at MaxRetries, the loop itself has no limit)
SendRaisesOutage(t) ==
    /\ pc \in {"pool", "inline"}
    /\ tasks[t].st = "send"
    /\ outage
    /\ tasks[t].att < MaxRetries
    /\ tasks' = [tasks EXCEPT ![t].sfail = @ + 1,
                              ![t].warns = @ + Warnings("send"),
                              ![t].att = @ + 1,
                              ![t].st = AfterError("send")]
    /\ UNCHANGED << reply_mapping, pool_size, pc, inbox_results,
                    spam_results, results, idx, fetched, sends, rdels, odels,
                    present, sentbox, failures >>
    /\ UNCHANGED << accessed, message_vars, side_vars,
                    entry_vars >>

NextRetry ==
    \/ GetMessage
    \/ GetMessageRaises
    \/ \E t \in DOMAIN tasks : StartSendReply(t)
    \/ \E t \in DOMAIN tasks : SendOk(t)
    \/ \E t \in DOMAIN tasks : SendRaises(t)
    \/ \E t \in DOMAIN tasks : SendRaisesOutage(t)
    \/ \E t \in DOMAIN tasks : DeleteReplyOk(t)
    \/ \E t \in DOMAIN tasks : DeleteReplyRaises(t)
    \/ FanoutReturns
    \/ DeleteOriginal
    \/ DeleteOriginalRaises
    \/ Finish

\* the interpreter and the pool's workers keep running: a step that can be
\* taken is taken in the end, and outside an outage the calls that raise
\* are the finitely many that failures counts
SpecRetry == InitRetry /\ [][NextRetry]_vars /\ WF_vars(NextRetry)

TypeOK ==
    /\ pc \in {"main", "credentials", "list_inbox", "list_spam", "loop",
               "pool", "inline", "delete_orig", "done", "aborted", "exited",
               "message", "store"}
    /\ idx \in 1..(Len(results) + 1)
    /\ failures \in 0..MaxFailures
    /\ accessed \in BOOLEAN

\* ------------------------------------------------------ claim helpers
\* the identifiers of a listing response, in listed order
Listed(response) ==
    IF "messages" \in DOMAIN response
    THEN [k \in 1..Len(response["messages"]) |-> response["messages"][k].id]
    ELSE << >>

\* positions of the From headers of the entry at position i
FromPositions(i) ==
    LET h == Mailbox[results[i].id].headers
    IN { k \in 1..Len(h) : h[k].name = "From" }

\* the entry at position i has a From header whose first value is
\* non-empty and a key of reply_mapping
SenderConfigured(i) ==
    /\ FromPositions(i) # {}
    /\ LET h == Mailbox[results[i].id].headers
           k == CHOOSE j \in FromPositions(i) :
                    \A l \in FromPositions(i) : j <= l
       IN h[k].value # "" /\ h[k].value \in DOMAIN reply_mapping

\* the policy of a configured entry
PolicyOf(i) ==
    LET h == Mailbox[results[i].id].headers
        k == CHOOSE j \in FromPositions(i) :
                 \A l \in FromPositions(i) : j <= l
    IN reply_mapping[h[k].value]

\* replyCount: the policy's multiple, or 1 without one
ReplyCount(policy) ==
    IF "multiple" \in DOMAIN policy THEN policy["multiple"] ELSE 1

\* the policy asks to keep the replies
Retained(policy) ==
    "keep_reply" \in DOMAIN policy /\ policy["keep_reply"]

Entries == DOMAIN odels

\* ---------------------------------------------------------------- C1
\* C1: for every listed message whose From header is absent, empty or not
\* a key of reply_mapping, no send_reply call exists and no reply send,
\* reply delete or delete of the original is issued: the message stays in
\* the mailbox.
C1_UnmatchedUntouched ==
    /\ \A i \in Entries :
          ~SenderConfigured(i) =>
              /\ sends[i] = 0
              /\ rdels[i] = 0
              /\ odels[i] = 0
              /\ results[i].id \in present
    /\ pc \in {"pool", "inline", "delete_orig"} => SenderConfigured(idx)
    /\ tasks # << >> => SenderConfigured(idx)

\* a completed run whose list held a message without From, one with an
\* empty From and one from a sender that is not configured
C1_Witness ==
    /\ pc = "done"
    /\ "a@b.com" \notin DOMAIN reply_mapping
    /\ { results[i].id : i \in 1..Len(results) } = {"m1", "m2", "m3"}
    /\ present = MessageIds

\* ---------------------------------------------------------------- C2
\* C2: when the original of a matched message has been deleted, exactly
\* replyCount reply sends have succeeded for it, whatever transport
\* failures occurred in the sends and the deletes after send.
C2_ExactlyReplyCountSends ==
    \A i \in Entries :
        odels[i] > 0 => sends[i] = ReplyCount(PolicyOf(i))

\* ---------------------------------------------------------------- C3
\* C3: the delete of a matched original is issued only when every
\* send_reply call started for it has returned, and after that delete no
\* reply send and no reply delete happens for that message.
C3_Barrier ==
    [][\A i \in Entries \cap DOMAIN odels' :
          /\ odels'[i] > odels[i] =>
                 \A t \in DOMAIN tasks : tasks[t].st = "returned"
          /\ odels[i] > 0 =>
                 /\ sends'[i] = sends[i]
                 /\ rdels'[i] = rdels[i]]_vars

\* the original of a message with two replies is about to be deleted,
\* after a retry
C3_Witness ==
    /\ pc = "delete_orig"
    /\ Cardinality(DOMAIN tasks) = 2
    /\ \E t \in DOMAIN tasks : tasks[t].warns > 0

\* ---------------------------------------------------------------- C4
\* C4: a send_reply call that has returned had exactly one send succeed
\* and, when keep_reply is false, issued exactly one delete, however
\* many of its attempts failed at the send or at the delete.
C4_RetryIdempotent ==
    \A t \in DOMAIN tasks :
        tasks[t].st = "returned" =>
            /\ tasks[t].sends = 1
            /\ ~tasks[t].keep => tasks[t].dels = 1

\* ---------------------------------------------------------------- C5
\* C5: when keep_reply is false and send_reply has returned, none of the
\* replies that this call sent, in any attempt, is still in the account.
C5_NoTraceOfReply ==
    \A t \in DOMAIN tasks :
        (tasks[t].st = "returned" /\ ~tasks[t].keep) =>
            \A k \in 1..tasks[t].sends : ReplyId(idx, t, k) \notin sentbox

\* ---------------------------------------------------------------- C6
\* C6: send_reply never raises, and it has returned only when the send of
\* its last attempt succeeded and, when keep_reply is false, the delete
\* of that same attempt succeeded.
C6_NoFailureExit ==
    \A t \in DOMAIN tasks :
        /\ tasks[t].st \in {"pending", "send", "delete", "returned"}
        /\ tasks[t].st = "returned" =>
               /\ tasks[t].att >= 1
               /\ tasks[t].sendAtt = tasks[t].att
               /\ ~tasks[t].keep => tasks[t].delAtt = tasks[t].att

\* a call without keep_reply returned after an attempt failed at the send
\* and another at the delete
C6_Witness ==
    \E t \in DOMAIN tasks :
        /\ tasks[t].st = "returned"
        /\ ~tasks[t].keep
        /\ tasks[t].sfail > 0
        /\ tasks[t].dfail > 0

C8_SendFailsThenSucceeds ==
    \A t \in DOMAIN tasks :
        (tasks[t].st = "returned" /\ tasks[t].dfail = 0) =>
            /\ tasks[t].warns = tasks[t].sfail
            /\ tasks[t].sends = 1
            /\ tasks[t].dels = (IF tasks[t].keep THEN 0 ELSE 1)

\* the send raised twice and then returned; the reply was deleted
C8_Witness ==
    \E t \in DOMAIN tasks :
        /\ tasks[t].st = "returned"
        /\ ~tasks[t].keep
        /\ tasks[t].sfail = 2
        /\ tasks[t].dfail = 0
        /\ tasks[t].dels = 1

\* ---------------------------------------------------------------- C9
\* C9: in a completed run every matched entry of the merged list has had
\* exactly one delete of its original issued, whatever reply attempts
\* failed, and no unmatched entry has had one.
C9_OneDeletePerMatched ==
    pc = "done" =>
        \A i \in 1..Len(results) :
            odels[i] = (IF SenderConfigured(i) THEN 1 ELSE 0)

\* a completed run with a matched and an unmatched entry in which reply
\* attempts failed
C9_Witness ==
    /\ pc = "done"
    /\ failures = MaxFailures
    /\ \E i \in 1..Len(results) : SenderConfigured(i) /\ odels[i] = 1
    /\ \E i \in 1..Len(results) : ~SenderConfigured(i) /\ odels[i] = 0

\* --------------------------------------------------------------- C10
\* C10: the messages are fetched in the order of the inbox listing
\* followed by the spam listing, duplicates included: what has been
\* fetched is a prefix of that concatenation, and all of it in a
\* completed run.
C10_InboxThenSpamOrder ==
    pc \notin {"list_inbox", "list_spam"} =>
        LET merged == Listed(inbox_results) \o Listed(spam_results)
        IN /\ Len(fetched) <= Len(merged)
           /\ fetched = SubSeq(merged, 1, Len(fetched))
           /\ pc = "done" => fetched = merged

\* a completed run over two inbox results and one spam result, the spam
\* result being also the first inbox result
C10_Witness ==
    /\ pc = "done"
    /\ Len(Listed(inbox_results)) = 2
    /\ Len(Listed(spam_results)) = 1
    /\ Listed(inbox_results)[1] # Listed(inbox_results)[2]
    /\ Listed(spam_results)[1] = Listed(inbox_results)[1]
    /\ Len(fetched) = 3

\* --------------------------------------------------------------- C11
\* C11: a fan-out over the pool has exactly one send_reply invocation
\* for each index 0..multiple-1, all of them returned when the fan-out
\* is over; at no time are more than pool_size of them in progress, and
\* an invocation that has started runs on to its return.
C11_BoundedFanout ==
    /\ [](pc \in {"pool", "delete_orig"} /\ "multiple" \in DOMAIN PolicyOf(idx)
            => /\ DOMAIN tasks = 0..(PolicyOf(idx)["multiple"] - 1)
               /\ pc = "delete_orig" =>
                      \A t \in DOMAIN tasks :
                          tasks[t].st = "returned" /\ tasks[t].att >= 1)
    /\ [](pc = "pool" =>
            Cardinality({ t \in DOMAIN tasks :
                            tasks[t].st \in {"send", "delete"} })
                <= pool_size)
    /\ [][pc = "pool" /\ pc' = "pool" =>
            \A t \in DOMAIN tasks :
                /\ tasks[t].st # "pending" => tasks'[t].st # "pending"
                /\ tasks[t].st = "returned" => tasks'[t] = tasks[t]]_vars

\* a pool of one worker with two invocations: the first is in progress
\* and the second waits
C11_Witness ==
    /\ pc = "pool"
    /\ pool_size = 1
    /\ DOMAIN tasks = {0, 1}
    /\ tasks[0].st \in {"send", "delete"}
    /\ tasks[1].st = "pending"

\* --------------------------------------------------------------- C12
\* C12: the pool is used only for a policy of more than one reply; for a
\* matched message whose policy has no multiple, or a multiple of 1 or
\* 0, there is exactly one send_reply invocation, of index 0, run by
\* execute itself.
C12_PoolOnlyForSeveral ==
    pc \in {"pool", "inline", "delete_orig"} =>
        /\ pc = "pool" => ReplyCount(PolicyOf(idx)) > 1
        /\ ReplyCount(PolicyOf(idx)) <= 1 => DOMAIN tasks = {0}

\* --------------------------------------------------------------- C13
\* C13: a send or a delete-after-send that raises never takes execute
\* out of the fan-out other than to the delete of the original, and
\* never ends the run; a completed run has a delete of the original of
\* every matched entry and has fetched every identifier of the list.
C13_ReplyFailuresAbsorbed ==
    /\ [][(pc = "pool" \/ pc = "inline") =>
            /\ pc' \in {"pool", "inline", "delete_orig"}
            /\ idx' = idx
            /\ odels' = odels]_vars
    /\ [](pc = "done" =>
            /\ Len(fetched) = Len(results)
            /\ \A i \in 1..Len(results) :
                   SenderConfigured(i) => odels[i] >= 1)

\* a completed run in which the delete after the send raised for a
\* matched entry, its original was deleted and a later identifier fetched
C13_Witness ==
    /\ pc = "done"
    /\ failures = MaxFailures
    /\ \E i \in 1..Len(results) :
          /\ i < Len(results)
          /\ SenderConfigured(i)
          /\ sends[i] > ReplyCount(PolicyOf(i))
          /\ odels[i] = 1
          /\ Len(fetched) > i

\* --------------------------------------------------------------- C14
\* C14: a listing, a get or a delete of an original that raises ends the
\* run at once: nothing happens after it, and no later identifier of the
\* merged list has been fetched, replied to or deleted.
C14_FailurePropagates ==
    /\ [][/\ pc # "aborted"
          /\ (pc \in {"list_inbox", "list_spam", "loop", "delete_orig"}
              /\ failures' > failures) => pc' = "aborted"]_vars
    /\ [](pc = "aborted" =>
            /\ Len(fetched) <= idx
            /\ \A i \in Entries :
                   i > idx => sends[i] = 0 /\ rdels[i] = 0 /\ odels[i] = 0)

\* a get raised after an earlier entry was processed and before the
\* last identifier of the list
C14_Witness ==
    /\ pc = "aborted"
    /\ idx >= 2
    /\ idx < Len(results)
    /\ Len(fetched) = idx
    /\ odels[idx] = 0

\* --------------------------------------------------------------- C15
\* C15: when the process has ended: without a path argument, or with a
\* path that does not exist, main has printed one message, constructed
\* nothing, run nothing, and the exit status is not zero; with an
\* existing path one bouncer was constructed, execute was called once
\* and the exit status is zero.
C15_EntryExitStatus ==
    exited =>
        IF Len(argv) < 2 \/ argv[Len(argv)] # ConfigPath
        THEN /\ printed = 1
             /\ constructed = 0
             /\ executes = 0
             /\ exit_status # 0
        ELSE /\ constructed = 1
             /\ executes = 1
             /\ exit_status = 0

\* --------------------------------------------------------------- C16
\* C16: once the refresh of the credentials has raised RefreshError the
\* process has ended, no call of the Gmail service was issued, the token
\* file was not written, and nothing happens afterwards.
C16_RefreshFailureFatal ==
    /\ [](cred = "refresh_error" =>
            /\ exited
            /\ pc = "exited"
            /\ ~accessed
            /\ token_writes = 0
            /\ fetched = << >>
            /\ sentbox = {}
            /\ present = MessageIds)
    /\ [][cred = "refresh_error" => FALSE]_vars

\* the process has ended on a refresh of the credentials that raised
C16_Witness ==
    /\ cred = "refresh_error"
    /\ exited
    /\ constructed = 1
    /\ executes = 1

\* ------------------------------------------------------------ helpers
\* positions of the headers of the message that carry the given name
Positions(name) ==
    LET h == fetched_message.payload["headers"]
    IN { k \in 1..Len(h) : h[k].name = name }

\* the value of the first header of that name, None without one
FirstValue(name) ==
    LET h == fetched_message.payload["headers"]
    IN IF Positions(name) = {}
       THEN None
       ELSE h[CHOOSE k \in Positions(name) :
                  \A l \in Positions(name) : k <= l].value

\* a value as it is written into a text
Shown(value) == IF value = None THEN "None" ELSE value

\* the MIME message inside an encoded reply
Decoded(raw_reply) == raw_reply.raw[2]

\* --------------------------------------------------------------- C17
\* C17: a header lookup returns the position, counted from 0, and the
\* value of the first header of the list that carries the field name,
\* also when several do, and index -1 with no value when none does; the
\* header list is not modified.
C17_FirstOccurrence ==
    /\ [](out.op = "get_header_field" =>
            LET h == fetched_message.payload["headers"]
                P == Positions(out.field_name)
            IN IF P = {}
               THEN out.result.index = -1 /\ out.result.value = None
               ELSE \E k \in P :
                        /\ \A l \in P : k <= l
                        /\ out.result.index = k - 1
                        /\ out.result.value = h[k].value)
    /\ [][fetched_message' = fetched_message]_vars

\* a lookup of From in a list whose second and fourth headers are From
\* headers of different values
C17_Witness ==
    /\ out.op = "get_header_field"
    /\ out.field_name = "From"
    /\ Positions("From") = {2, 4}
    /\ fetched_message.payload["headers"][2].value
           # fetched_message.payload["headers"][4].value
    /\ out.result.index = 1

\* --------------------------------------------------------------- C18
\* C18: a message is matched exactly when it has a From header, the
\* value of the first one is not empty and that value, as it stands, is
\* a key of reply_mapping; the policy is the entry of that key.
C18_ExactRawMatch ==
    out.op = "match" =>
        /\ out.matched = (/\ Positions("From") # {}
                          /\ FirstValue("From") # ""
                          /\ FirstValue("From") \in DOMAIN reply_mapping)
        /\ out.matched =>
               out.reply_attributes = reply_mapping[FirstValue("From")]

\* a sender written with a display name is not matched by the key of
\* its bare address
C18_Witness ==
    /\ out.op = "match"
    /\ FirstValue("From") = "Bob <a@b.com>"
    /\ "a@b.com" \in DOMAIN reply_mapping
    /\ ~out.matched

\* --------------------------------------------------------------- C19
\* C19: the reply goes to the policy's to when it has one, else to the
\* sender of the original; its text starts with the policy's prefix when
\* it has one, else with the default prefix; its from is the value of
\* the original's To header and its subject "Re:  " and the original
\* subject.
C19_ReplyAddressing ==
    out.op = "construct_reply" =>
        LET policy == reply_mapping[FirstValue("From")]
            reply == Decoded(out.raw_reply)
        IN /\ reply.to = (IF "to" \in DOMAIN policy
                          THEN policy["to"] ELSE FirstValue("From"))
           /\ reply.payload[1] = (IF "prefix" \in DOMAIN policy
                                  THEN policy["prefix"] ELSE DefaultPrefix)
           /\ Positions("To") # {} => reply.from = FirstValue("To")
           /\ Positions("Subject") # {} =>
                  reply.subject = << "Re:  ", FirstValue("Subject") >>

\* a policy with a to and no prefix: the reply goes to alt@c.com and
\* its text starts with the default prefix
C19_Witness ==
    /\ out.op = "construct_reply"
    /\ DOMAIN reply_mapping["a@b.com"] = {"to"}
    /\ Positions("To") # {}
    /\ Positions("Subject") # {}
    /\ Decoded(out.raw_reply).to = "alt@c.com"
    /\ Decoded(out.raw_reply).payload[1] = "STOP"

\* --------------------------------------------------------------- C20
\* C20: the text of the reply is the prefix, two newlines, the lines
\* From, Sent, To and Subject with the values of the original's From,
\* Date, To and Subject headers in that order, two newlines and the
\* body of the original, and nothing else.
C20_ReplyBodyFormat ==
    out.op = "construct_reply" =>
        LET text == Decoded(out.raw_reply).payload
        IN /\ Len(text) = 12
           /\ SubSeq(text, 2, 11) =
                  << "\n\n",
                     "From:  ", Shown(FirstValue("From")),
                     "\nSent:  ", Shown(FirstValue("Date")),
                     "\nTo:  ", Shown(FirstValue("To")),
                     "\nSubject:  ", Shown(FirstValue("Subject")),
                     "\n\n" >>
           /\ text[12] \in {"full", "full text"}

\* a reply to a message that has all four headers, with different
\* values
C20_Witness ==
    /\ out.op = "construct_reply"
    /\ \A name \in {"From", "Date", "To", "Subject"} : Positions(name) # {}
    /\ Decoded(out.raw_reply).payload[6] = "d1"
    /\ Decoded(out.raw_reply).payload[8] = "me@g.com"

\* --------------------------------------------------------------- C21
\* C21: load_configuration of a path that cannot be opened or parsed
\* returns False and leaves the configuration as it was; of a file that
\* parses it returns True and the configuration is the object of the
\* file, whatever was loaded before.
C21_LoadAllOrNothing ==
    last.op = "load_configuration" =>
        IF last.path \in {"config.json", "more.json", "empty.json"}
        THEN /\ last.result = PyBool(TRUE)
             /\ config = PyDict(JsonFiles[last.path])
        ELSE /\ last.result = PyBool(FALSE)
             /\ config = last.before

\* a load of a file that does not parse, with properties loaded before
C21_Witness ==
    /\ last.op = "load_configuration"
    /\ last.path = "bad.json"
    /\ last.before.type = "dict"
    /\ DOMAIN last.before.items = {"a", "b"}
    /\ config = last.before

\* --------------------------------------------------------------- C22
\* C22: add_configuration returns a boolean: True when a configuration
\* was loaded and the file parses, the configuration then being the old
\* one with the names of the file overridden; False otherwise, with the
\* configuration unchanged.
C22_AddReturnsBoolean ==
    last.op = "add_configuration" =>
        /\ last.result.type = "bool"
        /\ last.result.value =
               (/\ last.before.type = "dict"
                /\ last.path \in {"config.json", "more.json", "empty.json"})
        /\ IF last.result.value
           THEN /\ config.type = "dict"
                /\ DOMAIN config.items =
                       DOMAIN last.before.items \cup
                           DOMAIN JsonFiles[last.path]
                /\ \A k \in DOMAIN config.items :
                       config.items[k] =
                           (IF k \in DOMAIN JsonFiles[last.path]
                            THEN JsonFiles[last.path][k]
                            ELSE last.before.items[k])
           ELSE config = last.before

\* --------------------------------------------------------------- C23
\* C23: add_property returns True only for a name that was absent,
\* update_property, remove_property and rename_property only for a name
\* that was present, and when one of them returns False the
\* configuration is as it was before the call.
C23_RefusalKeepsState ==
    last.op \in {"add_property", "update_property", "remove_property",
                 "rename_property"} =>
        /\ last.result.type = "bool"
        /\ last.result.value =>
               /\ last.before.type = "dict"
               /\ (last.name \in DOMAIN last.before.items)
                      = (last.op # "add_property")
        /\ ~last.result.value => config = last.before

\* update_property of a name that is not in the loaded configuration
C23_Witness ==
    /\ last.op = "update_property"
    /\ last.before.type = "dict"
    /\ DOMAIN last.before.items = {"a"}
    /\ last.name = "b"
    /\ last.result = PyBool(FALSE)

\* --------------------------------------------------------------- C29
\* C29: between a load_configuration that returned True and the next
\* clear_properties the store is loaded: get_property of a name of the
\* mapping returns its value and add_property of a new name returns
\* True, also when the mapping is empty.
C29_LoadedUntilCleared ==
    loaded =>
        /\ config.type = "dict"
        /\ (last.op = "get_property"
            /\ last.name \in DOMAIN last.before.items)
               => last.result = PyValue(last.before.items[last.name])
        /\ (last.op = "add_property"
            /\ last.name \notin DOMAIN last.before.items)
               => last.result = PyBool(TRUE)

\* --------------------------------------------------------------- C30
\* C30: only the first GmailAutoBouncer constructed in a process loads
\* its file; a later construction leaves the store as it is, and every
\* instance has the reply_mapping, default_prefix, pool_size and
\* delete_delay of the file of the first one.
C30_FirstPathOnly ==
    /\ [](\A i \in DOMAIN instances :
            /\ instances[i].loaded_here => i = 1
            /\ \A f \in {"reply_mapping", "default_prefix", "pool_size",
                         "delete_delay"} :
                   /\ instances[i][f] = instances[1][f]
                   /\ instances[1].loaded_here =>
                          instances[i][f] =
                              PyValue(JsonFiles[instances[1].config_path][f]))
    /\ [][conf_man => config' = config]_vars

\* a second instance constructed with other.json has the pool_size of
\* bouncer.json
C30_Witness ==
    /\ Len(instances) = 2
    /\ instances[1].config_path = "bouncer.json"
    /\ instances[2].config_path = "other.json"
    /\ instances[2].pool_size = PyValue(1)
    /\ ~instances[2].loaded_here

\* --------------------------------------------------------------- C26
\* C26: the body extraction of a matched message never raises; the
\* body is the decoded data of the first part when the payload has a
\* first part with data, and the snippet in every other case: no parts,
\* an empty list of parts, a first part without data.
C26_BodyNeverRaises ==
    /\ out.op # "raised"
    /\ out.op = "construct_reply" =>
           LET payload == fetched_message.payload
               inline == /\ "parts" \in DOMAIN payload
                         /\ Len(payload["parts"]) > 0
                         /\ "data" \in DOMAIN payload["parts"][1].body
           IN Decoded(out.raw_reply).payload[12] =
                  (IF inline
                   THEN payload["parts"][1].body["data"][2]
                   ELSE fetched_message.snippet)

\* --------------------------------------------------------------- C27
\* C27: whatever is assigned to it, the daemon flag of a process of a
\* NonDaemonicPool reads False and is not stored as set, so that every
\* worker may start the workers of a further pool.
C27_NeverDaemonic ==
    \A p \in DOMAIN procs :
        /\ procs[p].read # "True"
        /\ ~procs[p].stored
        /\ Len(procs) < MaxProcs => ENABLED PoolStartsWorker(p)

\* a worker that was assigned daemon = True reads False and has started
\* a worker of its own
C27_Witness ==
    \E p, q \in DOMAIN procs :
        /\ procs[p].parent # 0
        /\ procs[p].assigned = "True"
        /\ procs[p].read = "False"
        /\ procs[q].parent = p

\* ------------------------------------------------------------------ C25
\* the send_reply calls of the entry being processed
Calls == 0..(MaxMultiple - 1)

\* C25: a send_reply call returns exactly when an attempt completes without
\* a transport error: when the service is not in an outage every started
\* call returns in the end, and a call that has returned did so in an
\* iteration whose send (and delete, when the reply is not kept) completed
\* without an error; in an outage no call has
\* returned, every started call goes on retrying (as far as the iterations
\* are followed), and the run has neither deleted the original of the
\* entry whose replies are being sent nor fetched a later entry
C25_RetryUntilSuccess ==
    /\ \A t \in Calls :
          (~outage /\ t \in DOMAIN tasks /\ tasks[t].st \in {"send", "delete"})
             ~> (t \in DOMAIN tasks /\ tasks[t].st = "returned")
    /\ \A t \in Calls :
          (outage /\ t \in DOMAIN tasks /\ tasks[t].st = "send")
             ~> (t \in DOMAIN tasks /\ tasks[t].st = "send"
                 /\ tasks[t].att >= MaxRetries)
    /\ [](\A t \in DOMAIN tasks :
             tasks[t].st = "returned" =>
                /\ tasks[t].sends >= 1
                /\ tasks[t].sendAtt = tasks[t].att
                /\ ~tasks[t].keep => tasks[t].delAtt = tasks[t].att)
    /\ [](outage /\ tasks # << >> =>
             /\ \A t \in DOMAIN tasks : tasks[t].st # "returned"
             /\ pc \in {"pool", "inline"}
             /\ odels[idx] = 0
             /\ results[idx].id \in present
             /\ Len(fetched) = idx)

\* an outage in which a call is still sending after MaxRetries iterations,
\* with nothing sent and the original in place
C25_Witness ==
    /\ outage
    /\ \E t \in DOMAIN tasks :
          /\ tasks[t].st = "send"
          /\ tasks[t].att >= MaxRetries
          /\ tasks[t].sfail >= MaxRetries - 1
          /\ tasks[t].sends = 0
    /\ odels[idx] = 0

\* ------------------------------------------------------------------ C24
\* C24: there is no cross-message concurrency: when messages().get is
\* issued for the next identifier, every send_reply call of the entries
\* before it has returned and every matched entry before it has had its
\* original deleted; send_reply calls exist only while the loop waits in
\* the fan-out of the current entry, and a send counts for that entry only
C24_NoCrossMessageConcurrency ==
    /\ [][Len(fetched') > Len(fetched) =>
            /\ \A t \in DOMAIN tasks : tasks[t].st = "returned"
            /\ Running(tasks) = {}
            /\ \A i \in 1..(idx - 1) :
                  SenderConfigured(i) => odels[i] >= 1]_vars
    /\ [](Running(tasks) # {} => pc \in {"pool", "inline"})
    /\ [][(pc = "pool" \/ pc = "inline") =>
            \A i \in DOMAIN sends :
               sends'[i] # sends[i] => i = idx /\ idx' = idx]_vars

\* the next identifier is fetched after a matched entry got its replies
\* and lost its original
C24_Witness ==
    /\ Len(fetched) >= 2
    /\ \E i \in 1..(idx - 1) :
          /\ sends[i] >= 2
          /\ odels[i] = 1
          /\ results[i].id \notin present
          /\ fetched[Len(fetched)] # results[i].id

\* ------------------------------------------------------------------ C28
\* C28: in every terminal state of a run, each entry for which at least one
\* reply send succeeded has had its original deleted
C28_BouncedThenDeleted ==
    pc \in {"done", "aborted"} =>
       \A i \in Entries :
          sends[i] > 0 => results[i].id \notin present

====
